---- MODULE Spec2Model ----
(***************************************************************************)
(* Model of efgy::markov::chain<T, order, rng, counter>                    *)
(* (include/ef.gy/markov.h): the transition table, train() and the         *)
(* generator operator()().                                                 *)
(*                                                                         *)
(* maybe<T> (ef.gy/maybe.h) is not part of the sources at hand; it is      *)
(* modelled as the tagged value the documentation describes: `nothing' or  *)
(* a concrete T.  Where `nothing' sorts among the keys of a transition     *)
(* map is not known, so both positions (first, last) are explored.         *)
(***************************************************************************)
EXTENDS Integers, Sequences, FiniteSets, Bags, TLC

\* ---- bounds of the exploration ----
NumSymbols == 2
MaxOrder == 2
\* cap on the training volume: the sum of c * (Len(input) + 1) over the calls
MaxMass == 5
MaxRaw == 6
\* number of states of the random number generator
RngPeriod == 2
\* widths of `int' and of `counter', scaled down to what TLC can compute
IntBits == 8
CounterBits == 16

MaxLen == MaxMass - 1
MaxOut == MaxLen + 1

\* ---- data types ----
nothing == 0
T == 1..NumSymbols
maybeT == {nothing} \cup T
input == UNION {[1..n -> T] : n \in 0..MaxLen}
counter == 1..MaxMass
RawValues == 0..(MaxRaw - 1)

VARIABLES
  order,        \* template parameter `order'
  nothingFirst, \* TRUE: `nothing' sorts before every T; FALSE: after
  transitions,  \* std::map<memory, transition>
  pc,           \* "idle", or "gen" while operator()() is running
  m,            \* operator()(): local `memory m'
  rv,           \* operator()(): local `output rv'
  draws,        \* number of RNG() calls made by the running operator()()
  allZero,      \* every RNG() value of the running operator()() was 0
  last,         \* the last completed call and what it returned
  trained,      \* bag of the completed train(input, c) calls
  RNG,          \* state of the model's copy of the generator: the number of
                \* values drawn from it, modulo RngPeriod
  thr,          \* per calling thread: the train call it is running
  raced,        \* two train calls have overlapped in time
  called,       \* the operator<< or operator>> called last, and its argument
  output        \* what the last operator>> stored in its argument

vars == <<order, nothingFirst, transitions, pc, m, rv, draws, allZero, last,
          trained, RNG, thr, raced, called, output>>

ovlVars == <<called, output>>

raceVars == <<thr, raced>>
genVars == <<pc, m, rv, draws, allZero, RNG>>

\* ---- integer conversions ----
toCounter(x) == x % (2 ^ CounterBits)

toInt(x) ==
  LET y == x % (2 ^ IntBits)
  IN IF y >= 2 ^ (IntBits - 1) THEN y - 2 ^ IntBits ELSE y

\* ---- maybe<T> and memory ----
keyLess(a, b) ==
  IF a = b THEN FALSE
  ELSE IF a = nothing THEN nothingFirst
  ELSE IF b = nothing THEN ~nothingFirst
  ELSE a < b

memory(n) == [i \in 1..n |-> nothing]

\* std::transform(s.begin() + 1, s.end(), s.begin(), id); *(s.end() - 1) = v
shiftNoDrop(s, v) == [i \in 1..Len(s) |-> IF i < Len(s) THEN s[i] ELSE v]

shift(s, v) == [i \in 1..Len(s) |-> IF i < Len(s) THEN s[i + 1] ELSE v]

shiftMNoDrop(s, v) == [i \in 1..Len(s) |-> IF i < Len(s) THEN s[i] ELSE v]

\* the transform run from the back: the oldest entry is copied upwards
shiftMSmear(s, v) == [i \in 1..Len(s) |-> IF i < Len(s) THEN s[1] ELSE v]

shiftM(s, v) == [i \in 1..Len(s) |-> IF i < Len(s) THEN s[i + 1] ELSE v]

\* ---- the transition table ----
emptyMap == [x \in {} |-> 0]

\* transitions[s][v] = c (a mutant of the += below)
assignAt(t, s, v, c) ==
  LET d == IF s \in DOMAIN t THEN t[s] ELSE emptyMap
      d2 == [k \in DOMAIN d \cup {v} |-> IF k = v THEN toCounter(c) ELSE d[k]]
  IN [w \in DOMAIN t \cup {s} |-> IF w = s THEN d2 ELSE t[w]]

\* transitions[s] = {v: c} (a mutant: the Distribution is replaced)
replaceAt(t, s, v, c) ==
  [w \in DOMAIN t \cup {s} |->
     IF w = s THEN [k \in {v} |-> toCounter(c)] ELSE t[w]]

\* the key compared as an unordered collection (a mutant of the += below)
addAtUnordered(t, s, v, c) ==
  LET key == SortSeq(s, LAMBDA x, y : x < y)
      d == IF key \in DOMAIN t THEN t[key] ELSE emptyMap
      old == IF v \in DOMAIN d THEN d[v] ELSE 0
      d2 == [k \in DOMAIN d \cup {v} |->
               IF k = v THEN toCounter(old + c) ELSE d[k]]
  IN [w \in DOMAIN t \cup {key} |-> IF w = key THEN d2 ELSE t[w]]

\* transitions[s][v] += c : both operator[] create what is absent
addAt(t, s, v, c) ==
  LET d == IF s \in DOMAIN t THEN t[s] ELSE emptyMap
      old == IF v \in DOMAIN d THEN d[v] ELSE 0
      d2 == [k \in DOMAIN d \cup {v} |->
               IF k = v THEN toCounter(old + c) ELSE d[k]]
  IN [w \in DOMAIN t \cup {s} |-> IF w = s THEN d2 ELSE t[w]]

\* std::accumulate over the input with the training lambda
RECURSIVE trainFold(_, _, _, _, _)
trainFold(t, s, in, i, c) ==
  IF i > Len(in) THEN [t |-> t, m |-> s]
  ELSE trainFold(addAt(t, s, in[i], c), shift(s, in[i]), in, i + 1, c)

trainNoTerminator(t, n, in, c) == trainFold(t, memory(n), in, 1, c).t

\* transitions[m][maybe<T>()] = c (a mutant of the ++)
trainTerminatorAssign(t, n, in, c) ==
  LET f == trainFold(t, memory(n), in, 1, c)
  IN assignAt(f.t, f.m, nothing, c)

\* if (input.empty()) return *this; (a mutant)
trainSkipEmpty(t, n, in, c) ==
  IF in = <<>> THEN t
  ELSE LET f == trainFold(t, memory(n), in, 1, c)
       IN addAt(f.t, f.m, nothing, 1)

\* the value-initialised T that a maybe<T> holding nothing carries
defaultT == CHOOSE x \in T : \A y \in T : x <= y

\* nothing taken for maybe<T>(T()) (a mutant)
trainTerminatorAsDefault(t, n, in, c) ==
  LET f == trainFold(t, memory(n), in, 1, c)
  IN addAt(f.t, f.m, defaultT, 1)

\* the end of the sequence recorded at the initial window:
\* transitions[memory()][maybe<T>()]++ (a mutant)
trainTerminatorAtStart(t, n, in, c) ==
  LET f == trainFold(t, memory(n), in, 1, c)
  IN addAt(f.t, memory(n), nothing, 1)

train(t, n, in, c) ==
  LET f == trainFold(t, memory(n), in, 1, c)
  IN addAt(f.t, f.m, nothing, 1)

\* ---- the generator ----
\* iteration order of a std::map<maybe<T>, counter>
RECURSIVE sortKeys(_)
sortKeys(K) ==
  IF K = {} THEN <<>>
  ELSE LET k == CHOOSE x \in K : \A y \in K \ {x} : keyLess(x, y)
       IN <<k>> \o sortKeys(K \ {k})

\* the loop ended one entry early: it->second.end() - 1 (a mutant)
entriesButLast(d) ==
  LET ks == sortKeys(DOMAIN d) IN SubSeq(ks, 1, Len(ks) - 1)

entries(d) == sortKeys(DOMAIN d)

\* std::accumulate(begin, end, 0, lambda): the accumulator is an int
RECURSIVE accumulate(_, _, _, _)
accumulate(d, ks, i, acc) ==
  IF i > Len(ks) THEN acc
  ELSE accumulate(d, ks, i + 1, toInt(toCounter(toCounter(acc) + d[ks[i]])))

total(d) == toCounter(accumulate(d, entries(d), 1, 0))

\* the for loop over it->second; found = FALSE: the loop ran off the end
RECURSIVE scanFrom(_, _, _, _)
scanFrom(d, ks, i, c) ==
  IF i > Len(ks) THEN [found |-> FALSE, key |-> nothing]
  ELSE IF c > d[ks[i]] THEN scanFrom(d, ks, i + 1, c - d[ks[i]])
  ELSE [found |-> TRUE, key |-> ks[i]]

\* the remainder itself taken for the outcome (a mutant)
scanRemainder(d, c) ==
  [found |-> TRUE, key |-> IF c = 0 THEN nothing ELSE 1 + (c % NumSymbols)]

scan(d, c) == scanFrom(d, entries(d), 1, c)

\* the values `c -= t.second' leaves in c, in the order of the loop
RECURSIVE scanRemainders(_, _, _, _)
scanRemainders(d, ks, i, c) ==
  IF i > Len(ks) THEN <<>>
  ELSE IF c > d[ks[i]]
  THEN <<c - d[ks[i]]>> \o scanRemainders(d, ks, i + 1, c - d[ks[i]])
  ELSE <<>>

\* ---- calls ----
\* the two callers of the overlapping train calls
Threads == {1, 2}

NotCalled == [via |-> "none", arg |-> <<>>]

NoTrain ==
  [st |-> "idle", in |-> <<>>, c |-> 0, i |-> 0, s |-> <<>>, tmp |-> 0]

RECURSIVE Mass(_)
Mass(cs) ==
  IF cs = {} THEN 0
  ELSE LET call == CHOOSE x \in cs : TRUE
       IN CopiesIn(call, trained) * call[2] * (Len(call[1]) + 1)
            + Mass(cs \ {call})

NoCall ==
  [op |-> "none", in |-> <<>>, c |-> 0, pre |-> emptyMap,
   outcome |-> "none", rv |-> <<>>, draws |-> 0, allZero |-> TRUE,
   m |-> <<>>]

Completed(outcome) ==
  [op |-> "generate", in |-> <<>>, c |-> 0, pre |-> emptyMap,
   outcome |-> outcome, rv |-> rv, draws |-> draws, allZero |-> allZero,
   m |-> m]

Init ==
  /\ order \in 1..MaxOrder
  /\ nothingFirst \in BOOLEAN
  /\ transitions = emptyMap
  /\ pc = "idle"
  /\ m = memory(order)
  /\ rv = <<>>
  /\ draws = 0
  /\ allZero = TRUE
  /\ last = NoCall
  /\ trained = EmptyBag
  /\ RNG = 0
  /\ thr = [t \in Threads |-> NoTrain]
  /\ raced = FALSE
  /\ called = NotCalled
  /\ output = <<>>

\* RNG() called once in train (a mutant)
TrainDraws(in, c) ==
  /\ pc = "idle"
  /\ Mass(BagToSet(trained)) + c * (Len(in) + 1) <= MaxMass
  /\ transitions' = train(transitions, order, in, c)
  /\ trained' = trained (+) SetToBag({<<in, c>>})
  /\ last' = [NoCall EXCEPT !.op = "train", !.in = in, !.c = c,
                            !.pre = transitions]
  /\ RNG' = (RNG + 1) % RngPeriod
  /\ UNCHANGED <<order, nothingFirst, pc, m, rv, draws, allZero>>
  /\ UNCHANGED raceVars

Train(in, c) ==
  /\ pc = "idle"
  /\ Mass(BagToSet(trained)) + c * (Len(in) + 1) <= MaxMass
  /\ transitions' = train(transitions, order, in, c)
  /\ trained' = trained (+) SetToBag({<<in, c>>})
  /\ last' = [NoCall EXCEPT !.op = "train", !.in = in, !.c = c,
                            !.pre = transitions]
  /\ UNCHANGED <<order, nothingFirst, pc, m, rv, draws, allZero, RNG>>
  /\ UNCHANGED raceVars

\* the generator seeded anew at every call: RNG = random() (a mutant)
GenCallReseeds ==
  /\ pc = "idle"
  /\ pc' = "gen"
  /\ m' = memory(order)
  /\ rv' = <<>>
  /\ draws' = 0
  /\ allZero' = TRUE
  /\ RNG' = 0
  /\ UNCHANGED <<order, nothingFirst, transitions, last, trained>>
  /\ UNCHANGED raceVars

GenCall ==
  /\ pc = "idle"
  /\ pc' = "gen"
  /\ m' = memory(order)
  /\ rv' = <<>>
  /\ draws' = 0
  /\ allZero' = TRUE
  /\ UNCHANGED <<order, nothingFirst, transitions, last, trained, RNG>>
  /\ UNCHANGED raceVars

GenEnd(outcome) ==
  /\ pc' = "idle"
  /\ m' = memory(order)
  /\ rv' = <<>>
  /\ draws' = 0
  /\ allZero' = TRUE
  /\ last' = outcome

\* transitions.find(m) == transitions.end(): return output() instead
GenThrowReturnsEmpty ==
  /\ pc = "gen"
  /\ m \notin DOMAIN transitions
  /\ GenEnd([Completed("returned") EXCEPT !.rv = <<>>])
  /\ UNCHANGED <<order, nothingFirst, transitions, trained, RNG>>
  /\ UNCHANGED raceVars

\* transitions[m] instead of transitions.find(m)
GenThrowCreates ==
  /\ pc = "gen"
  /\ m \notin DOMAIN transitions
  /\ GenEnd(Completed("threw"))
  /\ transitions' = [w \in DOMAIN transitions \cup {m} |->
                       IF w = m THEN emptyMap ELSE transitions[w]]
  /\ UNCHANGED <<order, nothingFirst, trained, RNG>>
  /\ UNCHANGED raceVars

\* transitions.find(m) == transitions.end(): throw std::runtime_error
GenThrow ==
  /\ pc = "gen"
  /\ m \notin DOMAIN transitions
  /\ GenEnd(Completed("threw"))
  /\ UNCHANGED <<order, nothingFirst, transitions, trained, RNG>>
  /\ UNCHANGED raceVars

\* one iteration of the outer loop with the window found
GenDraw(raw) ==
  /\ pc = "gen"
  /\ m \in DOMAIN transitions
  /\ draws <= MaxOut
  /\ LET d == transitions[m]
         tot == total(d)
         drawn == [Completed("none") EXCEPT !.draws = draws + 1,
                                            !.allZero = allZero /\ raw = 0]
     IN IF tot = 0
        THEN \* RNG() % 0
             GenEnd([drawn EXCEPT !.outcome = "undefined"])
        ELSE LET sel == scan(d, raw % tot)
             IN IF ~sel.found
                THEN /\ draws' = draws + 1
                     /\ allZero' = (allZero /\ raw = 0)
                     /\ UNCHANGED <<pc, m, rv, last>>
                ELSE IF sel.key # nothing
                THEN /\ Len(rv) < MaxOut
                     /\ rv' = Append(rv, sel.key)
                     /\ m' = shiftM(m, sel.key)
                     /\ draws' = draws + 1
                     /\ allZero' = (allZero /\ raw = 0)
                     /\ UNCHANGED <<pc, last>>
                ELSE GenEnd([drawn EXCEPT !.outcome = "returned"])
  /\ RNG' = (RNG + 1) % RngPeriod
  /\ UNCHANGED <<order, nothingFirst, transitions, trained>>
  /\ UNCHANGED raceVars

\* what the cap on the training volume leaves to train
Room == MaxMass - Mass(BagToSet(trained))

Next ==
  \/ \E c \in 1..Room : \E n \in 0..((Room \div c) - 1) :
       \E in \in [1..n -> T] : Train(in, c) /\ UNCHANGED ovlVars
  \/ GenCall /\ UNCHANGED ovlVars
  \/ GenThrow /\ UNCHANGED ovlVars
  \/ \E raw \in RawValues : GenDraw(raw) /\ UNCHANGED ovlVars

Spec == Init /\ [][Next]_vars

\* ---- the convenience overloads ----
\* std::basic_string<T>: size() characters, at positions 0 .. size() - 1
stringOf(v) ==
  [size |-> Len(v), data |-> [j \in 0..(Len(v) - 1) |-> v[j + 1]]]

\* input(pInput.begin(), pInput.end())
vectorOf(str) == [i \in 1..str.size |-> str.data[i - 1]]

\* operator<<(const input &)
InsertInput(in) ==
  /\ Train(in, 1)
  /\ called' = [via |-> "input", arg |-> in]
  /\ output' = <<>>

\* operator<<(const std::tuple<input, counter> &)
InsertTuple(tup) ==
  /\ Train(tup[1], tup[2])
  /\ called' = [via |-> "tuple", arg |-> tup]
  /\ output' = <<>>

\* operator<<(const std::basic_string<T> &)
InsertString(str) ==
  /\ Train(vectorOf(str), 1)
  /\ called' = [via |-> "string", arg |-> str]
  /\ output' = <<>>

\* the rate of occurence left out: train(..., 1) (a mutant)
InsertStringTupleUnweighted(tup) ==
  /\ Train(vectorOf(tup[1]), 1)
  /\ called' = [via |-> "stringtuple", arg |-> tup]
  /\ output' = <<>>

\* operator<<(const std::tuple<std::basic_string<T>, counter> &)
InsertStringTuple(tup) ==
  /\ Train(vectorOf(tup[1]), tup[2])
  /\ called' = [via |-> "stringtuple", arg |-> tup]
  /\ output' = <<>>

\* operator>>(output &) and operator>>(std::basic_string<T> &): (*this)()
ExtractCall(kind) ==
  /\ GenCall
  /\ called' = [via |-> kind, arg |-> <<>>]
  /\ output' = <<>>

\* the exception leaves the operator: nothing is stored
ExtractThrow ==
  /\ called.via \in {"output", "outstring"}
  /\ GenThrow
  /\ UNCHANGED ovlVars

\* an iteration of (*this)(); when it returns, the result is stored
ExtractDraw(raw) ==
  /\ called.via \in {"output", "outstring"}
  /\ GenDraw(raw)
  /\ output' = IF pc' = "idle" /\ last'.outcome = "returned"
               THEN IF called.via = "output" THEN last'.rv
                    ELSE stringOf(last'.rv)
               ELSE output
  /\ UNCHANGED called

NextOverloads ==
  \/ \E n \in 0..(Room - 1) : \E in \in [1..n -> T] : InsertInput(in)
  \/ \E c \in 1..Room : \E n \in 0..((Room \div c) - 1) :
       \E in \in [1..n -> T] : InsertTuple(<<in, c>>)
  \/ \E n \in 0..(Room - 1) : \E in \in [1..n -> T] :
       InsertString(stringOf(in))
  \/ \E c \in 1..Room : \E n \in 0..((Room \div c) - 1) :
       \E in \in [1..n -> T] : InsertStringTuple(<<stringOf(in), c>>)
  \/ \E kind \in {"output", "outstring"} : ExtractCall(kind)
  \/ ExtractThrow
  \/ \E raw \in RawValues : ExtractDraw(raw)

SpecOverloads == Init /\ [][NextOverloads]_vars

\* ---- train calls of two threads, interleaved at the reads and writes of
\* the counters ----
\* the write of `+= c' and of `++': the counter gets the value computed
storeAt(t, s, v, val) ==
  [w \in DOMAIN t |->
     IF w = s THEN [k \in DOMAIN t[w] |-> IF k = v THEN toCounter(val) ELSE t[w][k]]
     ELSE t[w]]

RECURSIVE InFlight(_)
InFlight(ts) ==
  IF ts = {} THEN 0
  ELSE LET t == CHOOSE x \in ts : TRUE
       IN (IF thr[t].st = "idle" THEN 0
           ELSE thr[t].c * (Len(thr[t].in) + 1)) + InFlight(ts \ {t})

RaceRoom == Room - InFlight(Threads)

\* the key the call of thread t is at: a symbol of the input, then nothing
keyOf(t) ==
  IF thr[t].i <= Len(thr[t].in) THEN thr[t].in[thr[t].i] ELSE nothing

\* the amount added: c for a symbol, 1 for the end of the sequence
incOf(t) == IF thr[t].i <= Len(thr[t].in) THEN thr[t].c ELSE 1

TBegin(t, in, c) ==
  /\ pc = "idle"
  /\ thr[t].st = "idle"
  /\ c * (Len(in) + 1) <= RaceRoom
  /\ thr' = [thr EXCEPT ![t] = [st |-> "load", in |-> in, c |-> c, i |-> 1,
                                s |-> memory(order), tmp |-> 0]]
  /\ raced' = (raced \/ \E u \in Threads \ {t} : thr[u].st # "idle")
  /\ UNCHANGED <<order, nothingFirst, transitions, last, trained>>
  /\ UNCHANGED genVars

\* transitions[s][v]: both operator[] create what is absent, at 0; the
\* counter is read
TLoad(t) ==
  /\ thr[t].st = "load"
  /\ transitions' = addAt(transitions, thr[t].s, keyOf(t), 0)
  /\ thr' = [thr EXCEPT ![t].st = "store",
                        ![t].tmp = IF thr[t].s \in DOMAIN transitions
                                      /\ keyOf(t) \in DOMAIN transitions[thr[t].s]
                                   THEN transitions[thr[t].s][keyOf(t)] ELSE 0]
  /\ UNCHANGED <<order, nothingFirst, last, trained, raced>>
  /\ UNCHANGED genVars

\* the counter is written with c alone (a mutant)
TStoreNoAdd(t) ==
  /\ thr[t].st = "store"
  /\ transitions' = storeAt(transitions, thr[t].s, keyOf(t), incOf(t))
  /\ IF thr[t].i <= Len(thr[t].in)
     THEN /\ thr' = [thr EXCEPT ![t].st = "load", ![t].i = thr[t].i + 1,
                                ![t].s = shift(thr[t].s, keyOf(t))]
          /\ UNCHANGED trained
     ELSE /\ thr' = [thr EXCEPT ![t] = NoTrain]
          /\ trained' = trained (+) SetToBag({<<thr[t].in, thr[t].c>>})
  /\ UNCHANGED <<order, nothingFirst, last, raced>>
  /\ UNCHANGED genVars

\* the counter is written; then the window is shifted or the call returns
TStore(t) ==
  /\ thr[t].st = "store"
  /\ transitions' = storeAt(transitions, thr[t].s, keyOf(t),
                            thr[t].tmp + incOf(t))
  /\ IF thr[t].i <= Len(thr[t].in)
     THEN /\ thr' = [thr EXCEPT ![t].st = "load", ![t].i = thr[t].i + 1,
                                ![t].s = shift(thr[t].s, keyOf(t))]
          /\ UNCHANGED trained
     ELSE /\ thr' = [thr EXCEPT ![t] = NoTrain]
          /\ trained' = trained (+) SetToBag({<<thr[t].in, thr[t].c>>})
  /\ UNCHANGED <<order, nothingFirst, last, raced>>
  /\ UNCHANGED genVars

NextRace ==
  \/ \E t \in Threads : \E c \in 1..RaceRoom :
       \E n \in 0..((RaceRoom \div c) - 1) :
         \E in \in [1..n -> T] : TBegin(t, in, c) /\ UNCHANGED ovlVars
  \/ \E t \in Threads : TLoad(t) /\ UNCHANGED ovlVars
  \/ \E t \in Threads : TStore(t) /\ UNCHANGED ovlVars

SpecRace == Init /\ [][NextRace]_vars

\* ---- a train call overlapping the generator, interleaved between the
\* table updates of train ----
Trainer == 1

\* train(input, c) is entered; the generator may be running
TrainBegin(in, c) ==
  /\ thr[Trainer].st = "idle"
  /\ c * (Len(in) + 1) <= RaceRoom
  /\ thr' = [thr EXCEPT ![Trainer] =
                [st |-> "step", in |-> in, c |-> c, i |-> 1,
                 s |-> memory(order), tmp |-> 0]]
  /\ UNCHANGED <<order, nothingFirst, transitions, last, trained, raced>>
  /\ UNCHANGED genVars

\* one table update of train: transitions[s][v] += c and the shift, or the
\* final transitions[m][maybe<T>()]++ and the return
TrainStep ==
  /\ thr[Trainer].st = "step"
  /\ transitions' = addAt(transitions, thr[Trainer].s, keyOf(Trainer),
                          incOf(Trainer))
  /\ IF thr[Trainer].i <= Len(thr[Trainer].in)
     THEN /\ thr' = [thr EXCEPT ![Trainer].i = thr[Trainer].i + 1,
                                ![Trainer].s = shift(thr[Trainer].s,
                                                     keyOf(Trainer))]
          /\ UNCHANGED trained
     ELSE /\ thr' = [thr EXCEPT ![Trainer] = NoTrain]
          /\ trained' =
               trained (+) SetToBag({<<thr[Trainer].in, thr[Trainer].c>>})
  /\ UNCHANGED <<order, nothingFirst, last, raced>>
  /\ UNCHANGED genVars

NextOverlap ==
  \/ \E c \in 1..RaceRoom : \E n \in 0..((RaceRoom \div c) - 1) :
       \E in \in [1..n -> T] : TrainBegin(in, c) /\ UNCHANGED ovlVars
  \/ TrainStep /\ UNCHANGED ovlVars
  \/ GenCall /\ UNCHANGED ovlVars
  \/ GenThrow /\ UNCHANGED ovlVars
  \/ \E raw \in RawValues : GenDraw(raw) /\ UNCHANGED ovlVars

SpecOverlap == Init /\ [][NextOverlap]_vars

\* ---- train calls whose weights use the width of the counter type ----
\* a weight of 1, and the least weight that does not fit a signed int
WideWeights == {1, 2 ^ (IntBits - 1)}

\* the number of table updates the completed train calls have made
RECURSIVE Volume(_)
Volume(cs) ==
  IF cs = {} THEN 0
  ELSE LET call == CHOOSE x \in cs : TRUE
       IN CopiesIn(call, trained) * (Len(call[1]) + 1) + Volume(cs \ {call})

WideRoom == MaxLen - Volume(BagToSet(trained))

\* train(input, c), c being any value of the counter type
TrainWide(in, c) ==
  /\ pc = "idle"
  /\ Len(in) + 1 <= WideRoom
  /\ transitions' = train(transitions, order, in, c)
  /\ trained' = trained (+) SetToBag({<<in, c>>})
  /\ last' = [NoCall EXCEPT !.op = "train", !.in = in, !.c = c,
                            !.pre = transitions]
  /\ UNCHANGED <<order, nothingFirst, pc, m, rv, draws, allZero, RNG>>
  /\ UNCHANGED raceVars

NextWide ==
  \/ \E c \in WideWeights : \E n \in 0..(WideRoom - 1) :
       \E in \in [1..n -> T] : TrainWide(in, c) /\ UNCHANGED ovlVars
  \/ GenCall /\ UNCHANGED ovlVars
  \/ GenThrow /\ UNCHANGED ovlVars
  \/ \E raw \in RawValues : GenDraw(raw) /\ UNCHANGED ovlVars

SpecWide == Init /\ [][NextWide]_vars

\* ---- the generator under a fair random number generator ----
\* the output is kept to its most recent MaxOut symbols and the number of
\* draws to MaxOut + 1, so that a call that does not return is a cycle
Recent(s) == IF Len(s) > MaxOut THEN Tail(s) ELSE s

Sat(n) == IF n > MaxOut THEN MaxOut + 1 ELSE n

\* one iteration of the outer loop with the window found
GenStep(raw) ==
  /\ pc = "gen"
  /\ m \in DOMAIN transitions
  /\ LET d == transitions[m]
         tot == total(d)
         drawn == [Completed("none") EXCEPT !.draws = Sat(draws + 1),
                                            !.allZero = allZero /\ raw = 0]
     IN IF tot = 0
        THEN GenEnd([drawn EXCEPT !.outcome = "undefined"])
        ELSE LET sel == scan(d, raw % tot)
             IN IF ~sel.found
                THEN /\ draws' = Sat(draws + 1)
                     /\ allZero' = (allZero /\ raw = 0)
                     /\ UNCHANGED <<pc, m, rv, last>>
                ELSE IF sel.key # nothing
                THEN /\ rv' = Recent(Append(rv, sel.key))
                     /\ m' = shiftM(m, sel.key)
                     /\ draws' = Sat(draws + 1)
                     /\ allZero' = (allZero /\ raw = 0)
                     /\ UNCHANGED <<pc, last>>
                ELSE GenEnd([drawn EXCEPT !.outcome = "returned"])
  /\ RNG' = (RNG + 1) % RngPeriod
  /\ UNCHANGED <<order, nothingFirst, transitions, trained>>
  /\ UNCHANGED raceVars

NextFair ==
  \/ \E c \in 1..Room : \E n \in 0..((Room \div c) - 1) :
       \E in \in [1..n -> T] : Train(in, c) /\ UNCHANGED ovlVars
  \/ GenCall /\ UNCHANGED ovlVars
  \/ GenThrow /\ UNCHANGED ovlVars
  \/ \E raw \in RawValues : GenStep(raw) /\ UNCHANGED ovlVars

\* the outcomes the scan stops at for some value of RNG() % total
Selectable(d) ==
  {scan(d, r).key : r \in {x \in 0..(total(d) - 1) : scan(d, x).found}}

\* every window of the table with the outcomes that can be sampled at it
Moves(t) == {<<W, Selectable(t[W])>> : W \in DOMAIN t}

\* the windows at which some value makes the call return
CanReturnNow(mv) == {p[1] : p \in {q \in mv : nothing \in q[2]}}

\* the windows at which some value leads to a window of S
Nearer(mv, S) ==
  {p[1] : p \in {q \in mv :
                   \E s \in q[2] \ {nothing} : shiftM(q[1], s) \in S}}

\* Levels(mv, <<CanReturnNow(mv)>>, k)[j + 1]: the windows from which the
\* call can return with j more symbols or fewer, for j up to k
RECURSIVE Levels(_, _, _)
Levels(mv, ls, k) ==
  IF k = 0 THEN ls
  ELSE CHOOSE res \in
         {Levels(mv, Append(v, v[Len(v)] \cup Nearer(mv, v[Len(v)])), k - 1) :
            v \in {ls}} : TRUE

Within(t) ==
  CHOOSE res \in
    {Levels(mv, <<CanReturnNow(mv)>>, MaxLen) : mv \in {Moves(t)}} : TRUE

\* at a window exactly k symbols from a return, a value is drawn that
\* leads one symbol closer
Approach(k) ==
  /\ pc = "gen"
  /\ \E lv \in {Within(transitions)} :
       /\ m \in lv[k + 1]
       /\ k > 0 => m \notin lv[k]
       /\ \E raw \in RawValues :
            /\ GenStep(raw)
            /\ UNCHANGED ovlVars
            /\ IF k = 0 THEN pc' = "idle"
               ELSE pc' = "gen" /\ m' \in lv[k]

\* the running call takes its next step
GenRuns ==
  \/ GenThrow /\ UNCHANGED ovlVars
  \/ \E raw \in RawValues : GenStep(raw) /\ UNCHANGED ovlVars

\* every value is drawn again and again at every window the generator
\* keeps coming back to; of this the part that bears on returning: a
\* generator that is again and again k symbols from a return is again and
\* again brought one symbol closer
FairRNG == \A k \in 0..MaxLen : SF_vars(Approach(k))

SpecFair == Init /\ [][NextFair]_vars /\ WF_vars(GenRuns) /\ FairRNG

\* ---- the constructor taking a data array ----
\* for (const auto &data : pData) { (*this) << data; }, the elements being
\* std::tuple<input, counter>
RECURSIVE constructFold(_, _, _, _)
constructFold(t, n, pData, i) ==
  IF i > Len(pData) THEN t
  ELSE constructFold(train(t, n, pData[i][1], pData[i][2]), n, pData, i + 1)

\* the train calls with a volume of at most room
CallsWithin(room) ==
  UNION {UNION {{<<in, c>> : in \in [1..n -> T]} :
                  n \in 0..((room \div c) - 1)} : c \in 1..room}

\* the data arrays with a volume of at most room
RECURSIVE Arrays(_)
Arrays(room) ==
  {<<>>} \cup
    UNION {{<<call>> \o rest :
              rest \in Arrays(room - call[2] * (Len(call[1]) + 1))} :
             call \in CallsWithin(room)}

BagOfArray(pData) ==
  [call \in {pData[i] : i \in DOMAIN pData} |->
     Cardinality({i \in DOMAIN pData : pData[i] = call})]

\* what the last operator<< of the loop leaves as the last call made
LastOfArray(pData) ==
  IF pData = <<>> THEN NoCall
  ELSE [NoCall EXCEPT
          !.op = "train",
          !.in = pData[Len(pData)][1],
          !.c = pData[Len(pData)][2],
          !.pre = constructFold(emptyMap, order,
                                SubSeq(pData, 1, Len(pData) - 1), 1)]

\* the loop begun at the second element: pData.begin() + 1 (a mutant)
ConstructFromSecond(pData) ==
  /\ pc = "idle"
  /\ called = NotCalled
  /\ trained = EmptyBag
  /\ last = NoCall
  /\ transitions' = constructFold(emptyMap, order, pData, 2)
  /\ trained' = BagOfArray(pData)
  /\ last' = LastOfArray(pData)
  /\ called' = [via |-> "construct", arg |-> pData]
  /\ output' = <<>>
  /\ UNCHANGED <<order, nothingFirst, pc, m, rv, draws, allZero, RNG>>
  /\ UNCHANGED raceVars

\* chain(const random &pRNG, const Array &pData): taken on the model as
\* chain(pRNG) leaves it, before any other call
Construct(pData) ==
  /\ pc = "idle"
  /\ called = NotCalled
  /\ trained = EmptyBag
  /\ last = NoCall
  /\ transitions' = constructFold(emptyMap, order, pData, 1)
  /\ trained' = BagOfArray(pData)
  /\ last' = LastOfArray(pData)
  /\ called' = [via |-> "construct", arg |-> pData]
  /\ output' = <<>>
  /\ UNCHANGED <<order, nothingFirst, pc, m, rv, draws, allZero, RNG>>
  /\ UNCHANGED raceVars

NextConstruct ==
  \/ \E pData \in Arrays(MaxMass) : Construct(pData)
  \/ \E c \in 1..Room : \E n \in 0..((Room \div c) - 1) :
       \E in \in [1..n -> T] : InsertTuple(<<in, c>>)
  \/ \E kind \in {"output", "outstring"} : ExtractCall(kind)
  \/ ExtractThrow
  \/ \E raw \in RawValues : ExtractDraw(raw)

SpecConstruct == Init /\ [][NextConstruct]_vars

\* ==== properties ====
Calls == BagToSet(trained)

termCount(t, w) ==
  IF w \in DOMAIN t /\ nothing \in DOMAIN t[w] THEN t[w][nothing] ELSE 0

\* the n symbols before position i of in, left-padded with nothing
Preceding(in, i, n) ==
  [j \in 1..n |-> IF i - n + j - 1 >= 1 THEN in[i - n + j - 1] ELSE nothing]

FinalWindow(in) == Preceding(in, Len(in) + 1, order)

Windows == [1..order -> maybeT]

\* the windows some trained input passes through
Occurring ==
  UNION {{Preceding(call[1], i, order) : i \in 1..(Len(call[1]) + 1)} :
           call \in Calls}

\* every other window has no occurrence and no entry
Seen == DOMAIN transitions \cup Occurring

\* C1: train(S, 1); train(S, 1) leaves the table that one train(S, 2) leaves,
\* from any starting table.
C1_Accumulation ==
  (last.op = "train" /\ last.c = 2) =>
    transitions = train(train(last.pre, order, last.in, 1), order, last.in, 1)

\* C2: train(S, w) raises the terminator count of the final window by
\* exactly w.
C2_TerminatorByWeight ==
  last.op = "train" =>
    termCount(transitions, FinalWindow(last.in))
      = termCount(last.pre, FinalWindow(last.in)) + last.c

\* C3: the count of (window W, concrete symbol s) is the sum over the train
\* calls of c times the number of positions of the input holding s after
\* history W; pairs that never occurred have no entry.
RECURSIVE SumCalls(_, _, _)
SumCalls(cs, W, s) ==
  IF cs = {} THEN 0
  ELSE LET call == CHOOSE x \in cs : TRUE
           occ == Cardinality({i \in 1..Len(call[1]) :
                     call[1][i] = s /\ Preceding(call[1], i, order) = W})
       IN CopiesIn(call, trained) * call[2] * occ
            + SumCalls(cs \ {call}, W, s)

\* order 1, "abab": [nothing] -> {a:1}, [a] -> {b:2}, [b] -> {a:1, nothing:1}
Abab == <<1, 2, 1, 2>>

AbabTable ==
  [W \in {<<nothing>>, <<1>>, <<2>>} |->
     IF W = <<nothing>> THEN [k \in {1} |-> 1]
     ELSE IF W = <<1>> THEN [k \in {2} |-> 2]
     ELSE [k \in {1, nothing} |-> 1]]

C3_Counts ==
  /\ \A W \in Seen, s \in T :
       LET e == SumCalls(Calls, W, s)
       IN IF e = 0
          THEN ~(W \in DOMAIN transitions /\ s \in DOMAIN transitions[W])
          ELSE /\ W \in DOMAIN transitions
               /\ s \in DOMAIN transitions[W]
               /\ transitions[W][s] = e
  /\ (order = 1 /\ trained = SetToBag({<<Abab, 1>>})) =>
       transitions = AbabTable

C3_Witness ==
  /\ order = 1
  /\ trained = SetToBag({<<Abab, 1>>})
  /\ last.op = "train"
  /\ transitions[<<1>>][2] = 2

\* C4: for a draw r in [0, total) the entry selected is the first one, in
\* iteration order, whose cumulative count exceeds r.
RECURSIVE FirstExceeding(_, _, _, _, _)
FirstExceeding(d, ks, i, sum, r) ==
  IF i > Len(ks) THEN [found |-> FALSE, key |-> nothing]
  ELSE IF r < sum + d[ks[i]] THEN [found |-> TRUE, key |-> ks[i]]
  ELSE FirstExceeding(d, ks, i + 1, sum + d[ks[i]], r)

C4_Proportional ==
  (pc = "gen" /\ m \in DOMAIN transitions) =>
    LET d == transitions[m]
    IN /\ \A r \in 0..(total(d) - 1) :
            scan(d, r) = FirstExceeding(d, entries(d), 1, 0, r)
       /\ \A k \in DOMAIN d :
            Cardinality({r \in 0..(total(d) - 1) : scan(d, r).key = k}) = d[k]

\* C5: every trained sequence can be returned by the generator for some
\* sequence of random values.
RECURSIVE CanGenerate(_, _, _, _)
CanGenerate(t, w, in, i) ==
  /\ w \in DOMAIN t
  /\ total(t[w]) > 0
  /\ \E r \in 0..(total(t[w]) - 1) :
       LET sel == scan(t[w], r)
       IN /\ sel.found
          /\ IF i > Len(in) THEN sel.key = nothing
             ELSE /\ sel.key = in[i]
                  /\ CanGenerate(t, shiftM(w, in[i]), in, i + 1)

C5_Reproducible ==
  \A call \in Calls : CanGenerate(transitions, memory(order), call[1], 1)

\* C6: the final window of every completed train call is in the table with
\* a terminator count of at least 1, whatever was called afterwards.
C6_FinalTerminator ==
  \A call \in Calls :
    /\ FinalWindow(call[1]) \in DOMAIN transitions
    /\ nothing \in DOMAIN transitions[FinalWindow(call[1])]
    /\ transitions[FinalWindow(call[1])][nothing] >= 1

C6_Witness ==
  /\ last.op = "generate"
  /\ \E c1 \in Calls, c2 \in Calls : FinalWindow(c1[1]) # FinalWindow(c2[1])

\* C7: on an empty table the generator throws at the first lookup, of the
\* all-nothing window, with no random number drawn and no output.
C7_Untrained ==
  /\ (pc = "gen" /\ transitions = emptyMap) =>
       (draws = 0 /\ rv = <<>> /\ m = memory(order))
  /\ (last.op = "generate" /\ transitions = emptyMap) =>
       /\ last.outcome = "threw"
       /\ last.draws = 0
       /\ last.rv = <<>>
       /\ last.m = memory(order)

C7_Witness ==
  last.op = "generate" /\ last.outcome = "threw" /\ transitions = emptyMap

\* C8: once a train call has completed the table is closed (the initial
\* window is present and every recorded concrete successor leads to a window
\* of the table), the generator is always at a window of the table and it
\* never throws.
Closed(t) ==
  /\ memory(order) \in DOMAIN t
  /\ \A W \in DOMAIN t : \A s \in DOMAIN t[W] \ {nothing} :
       (Tail(W) \o <<s>>) \in DOMAIN t

C8_NoThrowOnceTrained ==
  /\ trained # EmptyBag => Closed(transitions)
  /\ (pc = "gen" /\ trained # EmptyBag) => m \in DOMAIN transitions
  /\ (last.op = "generate" /\ last.outcome = "threw") => trained = EmptyBag

C8_Witness ==
  /\ last.op = "generate"
  /\ last.outcome = "returned"
  /\ Len(last.rv) >= 2
  /\ BagCardinality(trained) >= 2

\* C9: trained once, with weight 1, on a sequence whose successive windows
\* are pairwise distinct, the generator returns that sequence when every
\* random value is 0.
DistinctWindows(in) ==
  \A i \in 1..(Len(in) + 1), j \in 1..(Len(in) + 1) :
    i # j => Preceding(in, i, order) # Preceding(in, j, order)

OnlyCall(call) == trained = SetToBag({call})

C9_SinglePath ==
  \A in \in input :
    (/\ last.op = "generate"
     /\ last.allZero
     /\ OnlyCall(<<in, 1>>)
     /\ DistinctWindows(in)) =>
      (last.outcome = "returned" /\ last.rv = in)

C9_Witness ==
  /\ last.op = "generate"
  /\ last.allZero
  /\ \E in \in input :
       OnlyCall(<<in, 1>>) /\ DistinctWindows(in) /\ Len(in) >= 3
  /\ Len(last.rv) >= 3

\* C10: no step of the generator, returning or throwing, changes the table.
C10_GenerateReadsOnly ==
  [][(pc = "gen" \/ pc' = "gen") => transitions' = transitions]_vars

C10_Witness ==
  /\ last.op = "generate"
  /\ last.outcome = "returned"
  /\ last.draws >= 2
  /\ transitions # emptyMap

\* C11: no step removes a window or an entry of a Distribution, and no
\* counter decreases.
Grows(t1, t2) ==
  \A W \in DOMAIN t1 :
    /\ W \in DOMAIN t2
    /\ \A k \in DOMAIN t1[W] : k \in DOMAIN t2[W] /\ t2[W][k] >= t1[W][k]

C11_OnlyGrows == [][Grows(transitions, transitions')]_vars

C11_Witness ==
  /\ last.op = "train"
  /\ \E W \in DOMAIN last.pre : \E k \in DOMAIN last.pre[W] :
       transitions[W][k] > last.pre[W][k]
  /\ \E W \in DOMAIN transitions : W \notin DOMAIN last.pre

\* C12: the table does not depend on the order of the train calls: whatever
\* order they were made in, it is the table that training the same calls in
\* one fixed order leaves.
RECURSIVE TrainTimes(_, _, _)
TrainTimes(t, call, k) ==
  IF k = 0 THEN t
  ELSE TrainTimes(train(t, order, call[1], call[2]), call, k - 1)

RECURSIVE TrainBag(_, _)
TrainBag(t, cs) ==
  IF cs = {} THEN t
  ELSE LET call == CHOOSE x \in cs : TRUE
       IN TrainBag(TrainTimes(t, call, CopiesIn(call, trained)), cs \ {call})

C12_OrderIndependent ==
  /\ transitions = TrainBag(emptyMap, Calls)
  /\ last.op = "train" =>
       \A call \in Calls :
         train(train(last.pre, order, call[1], call[2]),
               order, last.in, last.c)
           = train(train(last.pre, order, last.in, last.c),
                   order, call[1], call[2])

C12_Witness ==
  /\ last.op = "train"
  /\ Len(last.in) >= 1
  /\ \E call \in Calls :
       /\ call # <<last.in, last.c>>
       /\ Len(call[1]) >= 1
       /\ call[1][1] = last.in[1]

\* C13: training the empty sequence changes the terminator count of the
\* all-nothing window and nothing else; between calls train is enabled for
\* every weight and length of input; a model trained on empty sequences only
\* generates the empty sequence.
OnlyInitialTerminator(t1, t2) ==
  LET W0 == memory(order)
      d1 == IF W0 \in DOMAIN t1 THEN t1[W0] ELSE emptyMap
  IN /\ DOMAIN t2 = DOMAIN t1 \cup {W0}
     /\ \A W \in DOMAIN t1 \ {W0} : t2[W] = t1[W]
     /\ DOMAIN t2[W0] = DOMAIN d1 \cup {nothing}
     /\ \A k \in DOMAIN d1 \ {nothing} : t2[W0][k] = d1[k]
     /\ termCount(t2, W0) > termCount(t1, W0)

C13_TrainTotal ==
  /\ (last.op = "train" /\ last.in = <<>>) =>
       OnlyInitialTerminator(last.pre, transitions)
  /\ pc = "idle" =>
       \A c \in 1..Room : \A n \in 0..((Room \div c) - 1) :
         ENABLED Train([i \in 1..n |-> 1 + (i % NumSymbols)], c)
  /\ (/\ last.op = "generate"
      /\ trained # EmptyBag
      /\ \A call \in Calls : call[1] = <<>>) =>
       (last.outcome = "returned" /\ last.rv = <<>>)

C13_Witness ==
  /\ last.op = "generate"
  /\ last.outcome = "returned"
  /\ BagCardinality(trained) >= 2
  /\ \A call \in Calls : call[1] = <<>>

\* C14: a train call changes the table and leaves the state of the random
\* number generator as it was.
C14_TrainKeepsRNG ==
  [][trained' # trained => (RNG' = RNG /\ transitions' # transitions)]_vars

C14_Witness ==
  /\ last.op = "train"
  /\ RNG # 0

\* C15: for order >= 2 two windows holding the same symbols in different
\* positions are different keys: each has its own Distribution, holding the
\* successors recorded after that very history and no others.
Rearranged(W) ==
  {[i \in 1..Len(W) |-> W[p[i]]] : p \in Permutations(1..Len(W))} \ {W}

C15_OrderSensitive ==
  order >= 2 =>
    \A W \in Occurring : \A V \in Rearranged(W) :
      /\ W \in DOMAIN transitions
      /\ V \in DOMAIN transitions <=> V \in Occurring
      /\ \A s \in T :
           (s \in DOMAIN transitions[W]) <=> (SumCalls(Calls, W, s) > 0)

C15_Witness ==
  /\ order = 2
  /\ <<1, 2>> \in DOMAIN transitions
  /\ <<2, 1>> \in DOMAIN transitions
  /\ transitions[<<1, 2>>] # transitions[<<2, 1>>]

\* C16: the window after observing s is the previous window without its
\* oldest entry, with s at the end, in the generator and in train; train
\* records s under the window as it was before the shift and leaves the keys
\* already stored in place.
C16_Shift ==
  /\ pc = "gen" => m = Preceding(rv, Len(rv) + 1, order)
  /\ (last.op = "generate" /\ last.outcome = "returned") =>
       last.m = Preceding(last.rv, Len(last.rv) + 1, order)
  /\ last.op = "train" =>
       /\ DOMAIN last.pre \subseteq DOMAIN transitions
       /\ DOMAIN transitions =
            DOMAIN last.pre \cup
              {Preceding(last.in, i, order) : i \in 1..(Len(last.in) + 1)}
       /\ \A i \in 1..Len(last.in) :
            LET W == Preceding(last.in, i, order)
                before == IF W \in DOMAIN last.pre /\ last.in[i] \in DOMAIN last.pre[W]
                          THEN last.pre[W][last.in[i]] ELSE 0
            IN /\ last.in[i] \in DOMAIN transitions[W]
               /\ transitions[W][last.in[i]] > before

C16_Witness ==
  /\ order = 2
  /\ last.op = "generate"
  /\ last.outcome = "returned"
  /\ Len(last.rv) >= 3
  /\ last.rv[1] # last.rv[2]

\* C19: nothing is a key of its own: a train call changes the count of a
\* concrete symbol (the smallest one, standing for T(), included) by c for
\* each of its occurrences and by nothing else, and changes a terminator
\* count at the final window only, and only by the end-of-sequence
\* increment.
countOf(t, W, k) ==
  IF W \in DOMAIN t /\ k \in DOMAIN t[W] THEN t[W][k] ELSE 0

RECURSIVE Ends(_, _)
Ends(cs, W) ==
  IF cs = {} THEN 0
  ELSE LET call == CHOOSE x \in cs : TRUE
       IN (IF FinalWindow(call[1]) = W THEN CopiesIn(call, trained) ELSE 0)
            + Ends(cs \ {call}, W)

Applied(W, k) ==
  IF k = nothing THEN Ends(Calls, W) ELSE SumCalls(Calls, W, k)

AllIdle == \A t \in Threads : thr[t].st = "idle"

C20_LostUpdate ==
  AllIdle =>
    \A W \in Windows : \A k \in maybeT :
      /\ countOf(transitions, W, k) <= Applied(W, k)
      /\ ~raced => countOf(transitions, W, k) = Applied(W, k)

C20_Witness ==
  /\ AllIdle
  /\ raced
  /\ \E W \in Windows : \E k \in T :
       countOf(transitions, W, k) < Applied(W, k)

\* C18: operator<< leaves the table that train leaves, with weight 1 for a
\* sequence or a string and the given weight for a tuple, a string being
\* trained as the sequence of its characters; operator>> stores what the
\* generator returned.
Chars(str) == [i \in 1..str.size |-> str.data[i - 1]]

C18_Overloads ==
  /\ (last.op = "train" /\ called.via = "input") =>
       transitions = train(last.pre, order, called.arg, 1)
  /\ (last.op = "train" /\ called.via = "tuple") =>
       transitions = train(last.pre, order, called.arg[1], called.arg[2])
  /\ (last.op = "train" /\ called.via = "string") =>
       transitions = train(last.pre, order, Chars(called.arg), 1)
  /\ (last.op = "train" /\ called.via = "stringtuple") =>
       transitions =
         train(last.pre, order, Chars(called.arg[1]), called.arg[2])
  /\ (pc = "idle" /\ last.op = "generate" /\ last.outcome = "returned"
        /\ called.via = "output") =>
       output = last.rv
  /\ (pc = "idle" /\ last.op = "generate" /\ last.outcome = "returned"
        /\ called.via = "outstring") =>
       /\ output.size = Len(last.rv)
       /\ \A j \in 0..(output.size - 1) : output.data[j] = last.rv[j + 1]

C18_Witness ==
  /\ pc = "idle"
  /\ last.op = "generate"
  /\ last.outcome = "returned"
  /\ called.via = "outstring"
  /\ output.size >= 2
  /\ BagCardinality(trained) >= 2

\* C21: a generator call that overlaps a train call, interleaved between
\* the table updates of train, is at a window of the table whenever the
\* table is not empty, so that it cannot throw once train has made its
\* first update.
C21_OverlapNoThrow ==
  (pc = "gen" /\ transitions # emptyMap) => m \in DOMAIN transitions

\* C22: the output of the generator is a path of recorded transitions:
\* every symbol has a count of at least 1 under the window of the symbols
\* before it, and the window after the last symbol of a returned output
\* has a terminator count of at least 1.
RecordedPath(out) ==
  \A i \in 1..Len(out) :
    countOf(transitions, Preceding(out, i, order), out[i]) >= 1

C22_RecordedPath ==
  /\ pc = "gen" => RecordedPath(rv)
  /\ (last.op = "generate" /\ last.outcome = "returned") =>
       /\ RecordedPath(last.rv)
       /\ termCount(transitions, FinalWindow(last.rv)) >= 1

C22_Witness ==
  /\ last.op = "generate"
  /\ last.outcome = "returned"
  /\ Len(last.rv) >= 2
  /\ \A call \in Calls : call[1] # last.rv

\* C28: the total the generator samples with is the exact sum of the
\* counters of the window's Distribution.
RECURSIVE SumOf(_, _)
SumOf(d, K) ==
  IF K = {} THEN 0
  ELSE LET k == CHOOSE x \in K : TRUE
       IN d[k] + SumOf(d, K \ {k})

ExactTotal(d) == SumOf(d, DOMAIN d)

C28_ExactTotal ==
  \A W \in DOMAIN transitions :
    total(transitions[W]) = ExactTotal(transitions[W])

\* C23: every window of the table has a Distribution that is not empty,
\* every counter is at least 1, and the total the generator takes the
\* random value modulo is at least 1.
C23_ModulusNonZero ==
  \A W \in DOMAIN transitions :
    /\ DOMAIN transitions[W] # {}
    /\ \A k \in DOMAIN transitions[W] : transitions[W][k] >= 1
    /\ ExactTotal(transitions[W]) >= 1
    /\ total(transitions[W]) >= 1

\* C24: for every window of the table and every r below the sum of its
\* counters the scan stops at an entry of the Distribution, at one only, and
\* the remainder it carries never drops below zero.
C24_ScanStops ==
  \A W \in DOMAIN transitions :
    LET d == transitions[W]
    IN \A r \in 0..(ExactTotal(d) - 1) :
         /\ scan(d, r).found
         /\ scan(d, r).key \in DOMAIN d
         /\ \A j \in DOMAIN scanRemainders(d, entries(d), 1, r) :
              scanRemainders(d, entries(d), 1, r)[j] >= 0

C24_Witness ==
  /\ pc = "gen"
  /\ draws >= 1
  /\ m \in DOMAIN transitions
  /\ Cardinality(DOMAIN transitions[m]) >= 2
  /\ \E r \in 0..(ExactTotal(transitions[m]) - 1) :
       scanRemainders(transitions[m], entries(transitions[m]), 1, r) # <<>>

\* C25: from every window of the table a finite chain of recorded
\* transitions to concrete symbols leads to a window with a terminator
\* count of at least 1.
Terminal(t) == {W \in DOMAIN t : termCount(t, W) >= 1}

\* the windows with a recorded concrete successor whose window is in S
Before(t, S) ==
  {W \in DOMAIN t :
     \E s \in DOMAIN t[W] \ {nothing} : t[W][s] >= 1 /\ shiftM(W, s) \in S}

RECURSIVE CanEnd(_, _)
CanEnd(t, S) ==
  IF Before(t, S) \subseteq S THEN S ELSE CanEnd(t, S \cup Before(t, S))

C25_CanTerminate ==
  CanEnd(transitions, Terminal(transitions)) = DOMAIN transitions

C25_Witness ==
  /\ last.op = "train"
  /\ BagCardinality(trained) >= 2
  /\ \E W \in DOMAIN transitions :
       W \notin Terminal(transitions) \cup
                  Before(transitions, Terminal(transitions))

\* C26: with a fair random number generator a call of the generator on a
\* trained model comes to an end.
C26_Terminates == (pc = "gen" /\ trained # EmptyBag) ~> (pc = "idle")

RECURSIVE InsertedUpTo(_, _)
InsertedUpTo(pData, k) ==
  IF k = 0 THEN emptyMap
  ELSE train(InsertedUpTo(pData, k - 1), order, pData[k][1], pData[k][2])

C29_ConstructAsInserts ==
  /\ called.via = "construct" =>
       /\ transitions = InsertedUpTo(called.arg, Len(called.arg))
       /\ transitions = TrainBag(emptyMap, Calls)
       /\ \A call \in Calls :
            CopiesIn(call, trained)
              = Cardinality({i \in DOMAIN called.arg : called.arg[i] = call})
       /\ BagCardinality(trained) = Len(called.arg)
       /\ called.arg # <<>> =>
            /\ last.op = "train"
            /\ transitions = train(last.pre, order, last.in, last.c)
            /\ last.pre = InsertedUpTo(called.arg, Len(called.arg) - 1)
       /\ RNG = 0
       /\ pc = "idle"
  /\ (called.via = "tuple" /\ pc = "idle") =>
       transitions = TrainBag(emptyMap, Calls)

C29_Witness ==
  /\ called.via = "construct"
  /\ Len(called.arg) >= 2
  /\ called.arg[1] # called.arg[2]
  /\ Len(called.arg[1][1]) >= 1
  /\ Len(called.arg[2][1]) >= 1

====
